---- MODULE Spec2Model ----
(***************************************************************************)
(* A model of the notification service: the Redis subscriber               *)
(* (app/services/redis_client.py), the notification processor              *)
(* (app/services/notification_processor.py), the e-mail provider           *)
(* (app/services/email_provider.py) and the preference / test-notification *)
(* routes (app/api/routes/notifications.py).                               *)
(*                                                                         *)
(* The processor's two asyncio tasks are modelled at the grain of their    *)
(* await points: one action is the code that runs between two awaits.      *)
(* Every awaited store call (commit, execute, refresh) either returns or   *)
(* raises; the choice is nondeterministic.  A Python Optional is a         *)
(* sequence of length at most one: <<>> is None, <<x>> is the value x.     *)
(***************************************************************************)
EXTENDS Integers, Sequences, FiniteSets, TLC

\* ------------------------------------------------------------------ bounds
\* Messages published on the channel over a run.
MaxEvents == 1
\* Rows of one source the notifications table holds when the processor starts.
MaxBacklog == 3
\* Rows of any source the notifications table holds when the processor starts.
MaxMixed == 2
\* settings.NOTIFICATION_BATCH_SIZE, read by the processor at construction.
BatchSize == 2
\* The latest time the clock shows.
MaxClock == 2
\* Preference-create requests the API serves over a run.
MaxRequests == 2

\* The asyncio task pairs start() can create: one per call of start().
Tasks == {"first", "second"}

\* ------------------------------------------------------------ Python values
None == <<>>

Some(x) == <<x>>

\* bool(o) of an Optional string: None and "" are falsy.
Truthy(o) == o # None /\ o[1] # ""

Range(s) == {s[i] : i \in 1..Len(s)}

\* str(n) as an f-string renders a small number.
Digits == <<"0", "1", "2", "3", "4", "5", "6", "7", "8", "9">>

NumStr(n) == Digits[n + 1]

FAILED_MSG == "Failed to send notification"

\* str(e) of the exception an awaited store call raises.
STORE_ERROR == "store error"

ADMIN_EMAIL == "admin@example.com"

\* ----------------------------------------------------------------- inputs
Payload(ty, pid, pname, qty, thr) ==
    [type |-> ty, product_id |-> pid, product_name |-> pname,
     current_quantity |-> qty, threshold |-> thr]

\* What a publisher may put on the channel: the text of a message, as whether
\* it is JSON at all and, when it is, the object it encodes.
Messages ==
    { [json |-> TRUE, data |-> Payload(Some("low_stock"), Some("P1"), Some("Widget"), Some(2), Some(5))],
      [json |-> TRUE, data |-> Payload(Some("low_stock"), Some("P1"), None, Some(0), Some(0))],
      [json |-> TRUE, data |-> Payload(Some("low_stock"), Some("P1"), Some("Widget"), None, Some(5))],
      [json |-> TRUE, data |-> Payload(Some("low_stock"), Some("P1"), Some("Widget"), Some(2), None)],
      [json |-> TRUE, data |-> Payload(Some("low_stock"), None, Some("Widget"), Some(2), Some(5))],
      [json |-> TRUE, data |-> Payload(Some("low_stock"), Some(""), Some("Widget"), Some(2), Some(5))],
      [json |-> TRUE, data |-> Payload(Some("order_status"), Some("P1"), Some("Widget"), Some(2), Some(5))],
      [json |-> TRUE, data |-> Payload(None, Some("P1"), Some("Widget"), Some(2), Some(5))],
      [json |-> FALSE, data |-> Payload(None, None, None, None, None)] }

\* One message of each fate: stored, dropped for a missing field, ignored
\* for its type, not JSON.
SomeMessages ==
    { m \in Messages :
        \/ ~m.json
        \/ m.data.product_name = Some("Widget") /\ m.data.product_id = Some("P1")
           /\ m.data.threshold = Some(5) /\ m.data.type # None }

\* A row of the notification_preferences table.
Preference(id, user, channel, enabled, email) ==
    [id |-> id, user_id |-> user, channel |-> channel, enabled |-> enabled,
     email |-> email]

\* What the preferences table may hold for user u1 while the processor runs:
\* nothing, or one e-mail preference, enabled or not, with or without an
\* address.
PreferenceTables ==
    { {},
      {Preference(1, "u1", "email", TRUE, Some("u1@example.com"))},
      {Preference(1, "u1", "email", FALSE, Some("u1@example.com"))},
      {Preference(1, "u1", "email", TRUE, None)} }

\* ------------------------------------------------------------------ state
VARIABLES
    running,        \* NotificationProcessor.running
    client,         \* RedisClient.client is not None
    subscribed,     \* the pubsub object is subscribed to the channel
    rc_running,     \* RedisClient._running
    ipc,            \* per task pair: where listen_for_notifications is
    spc,            \* per task pair: where process_pending_notifications is
    batch,          \* per sweep task: the Notification objects its session loaded
    pos,            \* per sweep task: the index in batch of the object being sent
    notifications,  \* the notifications table, in insertion order (id = index)
    preferences,    \* the notification_preferences table
    inbox,          \* messages delivered to the subscription, not yet polled
    polled,         \* history: how many messages the subscriber has polled
    persist,        \* history: what became of the last polled message
    emailLog,       \* history: one entry per call of email_provider.send_email
    hist,           \* history: per sweep task, its calls of send_notification
    now,            \* the clock datetime.utcnow() reads
    adminEmail,     \* settings.ADMIN_EMAIL
    smtpConfigured, \* SMTP_USER, SMTP_PASSWORD and EMAIL_FROM are all set
    req,            \* per preference-create request: where its handler is
    mail,           \* the last call of send_email made on its own: inputs and result
    storeFails      \* the database is one whose calls may raise

procVars == <<running, client, subscribed, rc_running>>

sweepVars == <<spc, batch, pos>>

storeVars == <<notifications, preferences>>

busVars == <<inbox, polled, persist>>

confVars == <<now, adminEmail, smtpConfigured, storeFails>>

vars == <<running, client, subscribed, rc_running, ipc, spc, batch, pos,
          notifications, preferences, inbox, polled, persist, emailLog, hist,
          now, adminEmail, smtpConfigured, req, mail, storeFails>>

\* ------------------------------------------------ processor life cycle
\* NotificationProcessor.start: set the flag and create the two tasks; they
\* run nothing until the event loop schedules them.
Start ==
    /\ \E t \in Tasks :
        /\ ipc[t] = "none"
        /\ \A u \in Tasks : ipc[u] = "none" => (t = "first" \/ u # "first")
        /\ ipc' = [ipc EXCEPT ![t] = "created"]
        /\ spc' = [spc EXCEPT ![t] = "check"]
    /\ running' = TRUE
    /\ UNCHANGED <<client, subscribed, rc_running, batch, pos, storeVars,
                   busVars, emailLog, hist, confVars, req, mail>>

\* start() as the application calls it: once, at startup.
StartOnce ==
    /\ \A t \in Tasks : ipc[t] = "none"
    /\ Start

\* RedisClient.stop
RedisStop == FALSE

\* NotificationProcessor.stop: both flags are cleared before any task runs
\* again (redis_client.stop() awaits nothing).
Stop ==
    /\ \E t \in Tasks : ipc[t] # "none"
    /\ running' = FALSE
    /\ rc_running' = RedisStop
    /\ UNCHANGED <<client, subscribed, ipc, sweepVars, storeVars, busVars,
                   emailLog, hist, confVars, req, mail>>

\* ------------------------------------------------------ the subscriber
\* RedisClient.subscribe up to its first await: connect when there is no
\* client yet; a failed connect is re-raised and ends the task.
Connect(t) ==
    /\ ipc[t] = "created"
    /\ \E connected \in BOOLEAN :
        /\ client' = (client \/ connected)
        /\ ipc' = [ipc EXCEPT ![t] = IF client' THEN "subscribe" ELSE "crashed"]
    /\ UNCHANGED <<running, subscribed, rc_running, sweepVars, storeVars,
                   busVars, emailLog, hist, confVars, req, mail>>

\* The flag subscribe() gives _running once the channel is subscribed.
SubscribeFlag == TRUE

\* pubsub.subscribe returns: _running is set and the loop condition, read
\* straight after, lets the first get_message start.  Or it raises, and the
\* exception ends the task.
Subscribe(t) ==
    /\ ipc[t] = "subscribe"
    /\ \/ /\ subscribed' = TRUE
          /\ rc_running' = SubscribeFlag
          /\ ipc' = [ipc EXCEPT ![t] = "waiting"]
       \/ /\ ipc' = [ipc EXCEPT ![t] = "crashed"]
          /\ UNCHANGED <<subscribed, rc_running>>
    /\ UNCHANGED <<running, client, sweepVars, storeVars, busVars, emailLog,
                   hist, confVars, req, mail>>

\* Variant: a validation that takes a quantity or threshold of 0 for a
\* missing one.
LowStockValidFalsy(d) ==
    ~(~Truthy(d.product_id) \/ d.current_quantity \in {None, Some(0)}
      \/ d.threshold \in {None, Some(0)})

\* handle_low_stock_notification, lines 66-71: the fields it needs.
LowStockValid(d) ==
    ~(~Truthy(d.product_id) \/ d.current_quantity = None \/ d.threshold = None)

\* Variant: an event without a type taken for a low-stock event.
ClassifyUntyped(m) ==
    IF ~m.json THEN "undecodable"
    ELSE IF m.data.type \notin {None, Some("low_stock")} THEN "ignored"
    ELSE IF ~LowStockValid(m.data) THEN "invalid"
    ELSE "valid"

\* What becomes of a polled message before anything is awaited:
\* json.loads fails, the type is not low_stock, the fields are incomplete,
\* or a notification is built.
Classify(m) ==
    IF ~m.json THEN "undecodable"
    ELSE IF m.data.type # Some("low_stock") THEN "ignored"
    ELSE IF ~LowStockValid(m.data) THEN "invalid"
    ELSE "valid"

\* data.get("product_name", product_id)
ProductName(d) ==
    IF d.product_name # None THEN d.product_name[1] ELSE d.product_id[1]

\* Variant: the low-stock row addressed to the e-mail channel.
LowStockRecordByEmail(d, created) ==
    [user_id |-> None,
     type |-> "low_stock",
     channel |-> "email",
     subject |-> <<"Low Stock Alert: ", ProductName(d)>>,
     content |-> <<"Product '", ProductName(d),
                   "' is running low on stock. Current quantity: ",
                   NumStr(d.current_quantity[1]), ", Threshold: ",
                   NumStr(d.threshold[1])>>,
     data |-> Some(d),
     status |-> "pending",
     error_message |-> None,
     created_at |-> created,
     updated_at |-> Some(now),
     sent_at |-> None,
     read_at |-> None]

\* notification_data, with the columns' defaults, as the row the insert writes.
LowStockRecord(d, created) ==
    [user_id |-> None,
     type |-> "low_stock",
     channel |-> "database",
     subject |-> <<"Low Stock Alert: ", ProductName(d)>>,
     content |-> <<"Product '", ProductName(d),
                   "' is running low on stock. Current quantity: ",
                   NumStr(d.current_quantity[1]), ", Threshold: ",
                   NumStr(d.threshold[1])>>,
     data |-> Some(d),
     status |-> "pending",
     error_message |-> None,
     created_at |-> created,
     updated_at |-> Some(now),
     sent_at |-> None,
     read_at |-> None]

\* Variant: the admin alert sent only when some preference is enabled.
AdminMailsIfEnabled(event) ==
    IF Truthy(adminEmail) /\ \E p \in preferences : p.enabled
    THEN <<[to |-> adminEmail, event |-> event, record |-> 0,
            transport |-> smtpConfigured]>>
    ELSE <<>>

\* Lines 94-113: the send_email calls the low-stock handler makes once the
\* row is stored, as the entries it adds to the log.
AdminMails(event) ==
    IF Truthy(adminEmail)
    THEN <<[to |-> adminEmail, event |-> event, record |-> 0,
            transport |-> smtpConfigured]>>
    ELSE <<>>

\* Variant: the admin alert sent whatever became of the insert.
MailsWhatever(outcome, event) == AdminMails(event)

\* Lines 86-94: the admin alert follows the commit and the refresh of the
\* row inside the same try of handle_notification, so an insert that raised
\* is followed by no call of send_email.
MailsAfter(outcome, event) == IF outcome = "ok" THEN AdminMails(event) ELSE <<>>

\* The loop condition of subscribe, read after a poll.
PollAgain == IF rc_running THEN "waiting" ELSE "done"

\* Variant: a subscriber whose decode failure ends the task.
AfterMessageStrict(m) == IF m.json THEN PollAgain ELSE "crashed"

\* Where subscribe is once message m has been polled: whatever json.loads or
\* the handler raised is caught (lines 57-60) and the loop condition is read.
AfterMessage(m) == PollAgain

\* get_message returns a message: json.loads, handle_notification and
\* handle_low_stock_notification run to the end (every exception is caught
\* at redis_client.py 57-60 or notification_processor.py 61), then the loop
\* condition is read.  persist records why nothing was inserted or how the
\* store answered the insert: the commit returns and so does the refresh,
\* the commit raises, or the commit returns and the refresh raises.
Receive(t) ==
    /\ ipc[t] = "waiting"
    /\ inbox # <<>>
    /\ LET m == Head(inbox)
       IN  /\ inbox' = Tail(inbox)
           /\ polled' = polled + 1
           /\ \/ /\ Classify(m) # "valid"
                 /\ persist' = Classify(m)
                 /\ UNCHANGED <<notifications, emailLog>>
              \/ /\ Classify(m) = "valid"
                 /\ persist' \in IF storeFails
                                 THEN {"ok", "commit_raised", "refresh_raised"}
                                 ELSE {"ok"}
                 /\ IF persist' = "commit_raised"
                    THEN UNCHANGED notifications
                    ELSE notifications' = Append(notifications,
                                LowStockRecord(m.data, Len(notifications) + 1))
                 /\ emailLog' = emailLog \o MailsAfter(persist', polled')
           /\ ipc' = [ipc EXCEPT ![t] = AfterMessage(m)]
    /\ UNCHANGED <<procVars, sweepVars, preferences, hist, confVars, req, mail>>

\* get_message times out with no message; the loop condition is read.
Timeout(t) ==
    /\ ipc[t] = "waiting"
    /\ ipc' = [ipc EXCEPT ![t] = PollAgain]
    /\ UNCHANGED <<procVars, sweepVars, storeVars, busVars, emailLog, hist,
                   confVars, req, mail>>

\* get_message raises (line 49 is outside the try): the exception leaves
\* subscribe and listen_for_notifications and ends the task.
PollRaises(t) ==
    /\ ipc[t] = "waiting"
    /\ ipc' = [ipc EXCEPT ![t] = "crashed"]
    /\ UNCHANGED <<procVars, sweepVars, storeVars, busVars, emailLog, hist,
                   confVars, req, mail>>

\* A publisher publishes m; Redis delivers it to a subscribed connection and
\* drops it otherwise.  Publishers wait for the last message to be polled.
Publish(m) ==
    /\ subscribed
    /\ inbox = <<>>
    /\ polled < MaxEvents
    /\ inbox' = Append(inbox, m)
    /\ UNCHANGED <<procVars, ipc, sweepVars, storeVars, polled, persist,
                   emailLog, hist, confVars, req, mail>>

\* ------------------------------------------------------------- the store
\* The row send_test_notification inserts.
TestRecord(user, channel, created) ==
    [user_id |-> Some(user),
     type |-> "test",
     channel |-> channel,
     subject |-> <<"Test Notification">>,
     content |-> <<"This is a test notification sent to verify your ", channel,
                   " notification preference.">>,
     data |-> Some([test |-> TRUE]),
     status |-> "pending",
     error_message |-> None,
     created_at |-> created,
     updated_at |-> Some(now),
     sent_at |-> None,
     read_at |-> None]

\* The message of a well-formed low-stock event.
WidgetEvent == Payload(Some("low_stock"), Some("P1"), Some("Widget"), Some(2), Some(5))

\* Where a row of the notifications table came from: the low-stock handler,
\* or send_test_notification called for a user and a channel.
Sources ==
    { [route |-> FALSE, user |-> "", channel |-> "database"],
      [route |-> TRUE, user |-> "u1", channel |-> "email"],
      [route |-> TRUE, user |-> "", channel |-> "email"],
      [route |-> TRUE, user |-> "u1", channel |-> "sms"] }

Row(src, created) ==
    IF src.route THEN TestRecord(src.user, src.channel, created)
    ELSE LowStockRecord(WidgetEvent, created)

\* The tables of at most n pending rows, given the sources the rows may have.
Backlogs(srcs, n) ==
    { [i \in 1..Len(f) |-> Row(f[i], i)] : f \in UNION {[1..k -> srcs] : k \in 0..n} }

\* ------------------------------------------------------------ the routes
\* The requests to create a preference, and what they may ask for.
Requests == 1..MaxRequests

Users == {"u1", "u2"}

Channels == {"email", "sms"}

Idle == [at |-> "idle", user_id |-> "", channel |-> ""]

\* create_notification_preference up to its commit: the query of lines
\* 168-174 finds a row for (user, channel) and the request is refused with
\* 400, or finds none and the new object is added to the session.
CheckPreference(r) ==
    /\ req[r].at = "idle"
    /\ \E u \in Users, c \in Channels :
          req' = [req EXCEPT ![r] =
                    [at |-> IF \E p \in preferences : p.user_id = u /\ p.channel = c
                            THEN "refused" ELSE "insert",
                     user_id |-> u, channel |-> c]]
    /\ UNCHANGED <<procVars, ipc, sweepVars, storeVars, busVars, emailLog, hist,
                   confVars, mail>>

\* Line 186: the commit inserts the row, or raises and inserts nothing.
InsertPreference(r) ==
    /\ req[r].at = "insert"
    /\ \/ preferences' = preferences \cup
              {Preference(Cardinality(preferences) + 1, req[r].user_id, req[r].channel,
                          TRUE, Some("new@example.com"))}
       \/ UNCHANGED preferences
    /\ req' = [req EXCEPT ![r].at = "done"]
    /\ UNCHANGED <<procVars, ipc, sweepVars, notifications, busVars, emailLog, hist,
                   confVars, mail>>

\* Variant: a provider that asks for the user name alone.
HasUserName(username, password, from_email) == Truthy(username)

\* email_provider.py 46: the three settings send_email needs.
SmtpComplete(username, password, from_email) ==
    ~(~Truthy(username) \/ ~Truthy(password) \/ ~Truthy(from_email))

\* send_email: with a setting missing it returns False at line 48; else the
\* message is built and aiosmtplib.send awaited once, and it returns True
\* (line 90) or, the transport having raised, False (line 94).  Nothing it
\* raises leaves the try of lines 50-94.
SendEmail(username, password, from_email, transport) ==
    IF ~SmtpComplete(username, password, from_email)
    THEN [result |-> FALSE, raised |-> FALSE, sends |-> 0]
    ELSE [result |-> transport = "accepts", raised |-> FALSE, sends |-> 1]

\* Lines 52-59: the address headers of the message send_email builds.  The Cc
\* header is written when cc is a non-empty list; no line writes a Bcc
\* header.
Headers(to, cc, bcc) == [To |-> <<to>>, Cc |-> cc, Bcc |-> <<>>]

\* Lines 73-77: the local list recipients.
Recipients(to, cc, bcc) == <<to>> \o cc \o bcc

\* Lines 80-87: aiosmtplib.send is called with the message and without its
\* recipients argument, so the envelope recipients are the addresses of the
\* message's To, Cc and Bcc headers; the list of lines 73-77 is not passed.
Envelope(to, cc, bcc) ==
    LET h == Headers(to, cc, bcc) IN h.To \o h.Cc \o h.Bcc

\* What the settings and the arguments of send_email may be.
Settings == {None, Some(""), Some("set")}

\* The cc and bcc arguments: None or an empty list, or a list of addresses.
CcLists == {<<>>, <<"c@example.com">>}

BccLists == {<<>>, <<"d@example.com">>}

Texts == {"", "text"}

NoMail ==
    [called |-> FALSE, username |-> None, password |-> None, from_email |-> None,
     to |-> "", subject |-> "", html |-> "", transport |-> "accepts",
     cc |-> <<>>, bcc |-> <<>>, headers |-> Headers("", <<>>, <<>>), envelope |-> <<>>,
     out |-> [result |-> FALSE, raised |-> FALSE, sends |-> 0]]

\* A caller awaits send_email on a provider built from any settings.
CallSendEmail ==
    /\ \E u, pw, f \in Settings, to \in {"a@example.com", "b@example.com"},
          subj, html \in Texts, transport \in {"accepts", "raises"},
          cc \in CcLists, bcc \in BccLists :
          mail' = [called |-> TRUE, username |-> u, password |-> pw, from_email |-> f,
                   to |-> to, subject |-> subj, html |-> html, transport |-> transport,
                   cc |-> cc, bcc |-> bcc,
                   headers |-> Headers(to, cc, bcc),
                   envelope |-> IF SendEmail(u, pw, f, transport).sends = 1
                                THEN Envelope(to, cc, bcc) ELSE <<>>,
                   out |-> SendEmail(u, pw, f, transport)]
    /\ UNCHANGED <<procVars, ipc, sweepVars, storeVars, busVars, emailLog, hist,
                   confVars, req>>

\* Time passes.
Tick ==
    /\ now < MaxClock
    /\ now' = now + 1
    /\ UNCHANGED <<procVars, ipc, sweepVars, storeVars, busVars, emailLog, hist,
                   adminEmail, smtpConfigured, storeFails, req, mail>>

\* Lines 102-103 of the read marker, on the row it found.
MarkRead(row) == [row EXCEPT !.read_at = Some(now), !.updated_at = Some(now)]

\* mark_notification_read(id): 404 when no row has the id; else the row is
\* marked and the commit of line 105 returns, or raises and stores nothing.
MarkNotificationRead(id) ==
    /\ \/ /\ id \in 1..Len(notifications)
          /\ notifications' = [notifications EXCEPT ![id] = MarkRead(@)]
       \/ UNCHANGED notifications
    /\ UNCHANGED <<procVars, ipc, sweepVars, preferences, busVars, emailLog, hist,
                   confVars, req, mail>>

\* ------------------------------------------------------------ the sweep
\* Variant: a query that takes failed rows up again.
UnsentIds(rows) == {i \in 1..Len(rows) : rows[i].status \in {"pending", "failed"}}

\* Variant: a query that passes over the rows addressed to a user.
PendingBroadcastIds(rows) ==
    {i \in 1..Len(rows) : rows[i].status = "pending" /\ rows[i].user_id = None}

\* The ids of the rows the query's WHERE clause selects.
PendingIds(rows) == {i \in 1..Len(rows) : rows[i].status = "pending"}

RECURSIVE OrderByCreatedAt(_, _)
\* ORDER BY created_at: the ids of S, oldest row first.
OrderByCreatedAt(rows, S) ==
    IF S = {} THEN <<>>
    ELSE LET m == CHOOSE i \in S : \A j \in S : rows[i].created_at <= rows[j].created_at
         IN  <<m>> \o OrderByCreatedAt(rows, S \ {m})

\* LIMIT n
Limit(s, n) == SubSeq(s, 1, IF Len(s) < n THEN Len(s) ELSE n)

\* Variant: the batch query without its LIMIT clause.
SelectPendingUnlimited(rows) == OrderByCreatedAt(rows, PendingIds(rows))

\* Lines 131-137: the ids the batch query returns.
SelectPending(rows) == Limit(OrderByCreatedAt(rows, PendingIds(rows)), BatchSize)

\* The Notification object the session builds for row i: the attributes
\* send_notification assigns, and which of them await a flush.
Load(rows, i) ==
    [id |-> i, status |-> rows[i].status, error_message |-> rows[i].error_message,
     sent_at |-> rows[i].sent_at, updated_at |-> rows[i].updated_at, dirty |-> {}]

\* Variant: a commit that writes nothing.
FlushNothing(rows, objs) == rows

\* Variant: a commit that also stamps the rows it writes as read.
FlushAndRead(rows, objs) ==
    [i \in 1..Len(rows) |->
        IF \E k \in 1..Len(objs) : objs[k].id = i /\ objs[k].dirty # {}
        THEN LET o == objs[CHOOSE k \in 1..Len(objs) : objs[k].id = i /\ objs[k].dirty # {}]
             IN  [rows[i] EXCEPT
                    !.status = IF "status" \in o.dirty THEN o.status ELSE @,
                    !.error_message = IF "error_message" \in o.dirty THEN o.error_message ELSE @,
                    !.sent_at = IF "sent_at" \in o.dirty THEN o.sent_at ELSE @,
                    !.updated_at = IF "updated_at" \in o.dirty THEN o.updated_at ELSE @,
                    !.read_at = Some(now)]
        ELSE rows[i]]

\* A commit that returns: the pending attribute changes of the session's
\* objects are written to their rows.
Flush(rows, objs) ==
    [i \in 1..Len(rows) |->
        IF \E k \in 1..Len(objs) : objs[k].id = i /\ objs[k].dirty # {}
        THEN LET o == objs[CHOOSE k \in 1..Len(objs) : objs[k].id = i /\ objs[k].dirty # {}]
             IN  [rows[i] EXCEPT
                    !.status = IF "status" \in o.dirty THEN o.status ELSE @,
                    !.error_message = IF "error_message" \in o.dirty THEN o.error_message ELSE @,
                    !.sent_at = IF "sent_at" \in o.dirty THEN o.sent_at ELSE @,
                    !.updated_at = IF "updated_at" \in o.dirty THEN o.updated_at ELSE @]
        ELSE rows[i]]

Flushed(objs) == [k \in 1..Len(objs) |-> [objs[k] EXCEPT !.dirty = {}]]

\* Lines 155-156
MarkProcessing(o) ==
    [o EXCEPT !.status = "processing", !.updated_at = Some(now),
              !.dirty = @ \cup {"status", "updated_at"}]

\* Variant: a record counted as sent whatever the channel reported.
SetResultSent(o, success) ==
    [o EXCEPT !.status = "sent", !.sent_at = Some(now), !.updated_at = Some(now),
              !.dirty = @ \cup {"status", "sent_at", "updated_at"}]

\* Lines 189-196
SetResult(o, success) ==
    IF success
    THEN [o EXCEPT !.status = "sent", !.sent_at = Some(now), !.updated_at = Some(now),
                   !.dirty = @ \cup {"status", "sent_at", "updated_at"}]
    ELSE [o EXCEPT !.status = "failed", !.error_message = Some(FAILED_MSG),
                   !.updated_at = Some(now),
                   !.dirty = @ \cup {"status", "error_message", "updated_at"}]

\* Lines 201-205: the except clause of send_notification, up to its commit.
OnException(o, e) ==
    [o EXCEPT !.status = "failed", !.error_message = Some(e), !.updated_at = Some(now),
              !.dirty = @ \cup {"status", "error_message", "updated_at"}]

\* The first row the preference query of lines 167-174 returns, if any.
FindPreference(prefs, user, channel) ==
    LET found == {p \in prefs : p.user_id = user /\ p.channel = channel}
    IN  IF found = {} THEN None
        ELSE Some(CHOOSE p \in found : \A q \in found : p.id <= q.id)

\* Variant: line 176 without its test of the address.
HasPreference(pref) == pref # None

\* Variant: line 176 with a test of the enabled flag.
HasEnabledAddress(pref) == pref # None /\ pref[1].enabled /\ Truthy(pref[1].email)

\* Line 176: preference and preference.email
HasAddress(pref) == pref # None /\ Truthy(pref[1].email)

\* Line 165: whether the e-mail branch looks a preference up.
NeedsLookup(row) == row.channel = "email" /\ Truthy(row.user_id)

\* Variant: every channel but e-mail counted as delivered.
ChannelNotEmail(row) == row.channel # "email"

\* Lines 160-186 for a record that awaits nothing there: the success flag.
ChannelSuccess(row) == row.channel = "database"

\* The history of a sweep task: whether an awaited call has raised inside
\* the call of send_notification in progress, what send_email returned to it
\* if it was called, and how the last finished call ended.
NoCalls == [faulted |-> FALSE, sender |-> None, last |-> None]

Ended(h, id, outcome) ==
    [faulted |-> FALSE, sender |-> None,
     last |-> Some([id |-> id, outcome |-> outcome, faulted |-> h.faulted,
                    sender |-> h.sender])]

\* Variant: a for loop that gives the batch up once the flag is cleared.
AdvanceWhileRunning(t, objs, k) ==
    IF k <= Len(objs) /\ running
    THEN /\ batch' = [batch EXCEPT ![t] = [objs EXCEPT ![k] = MarkProcessing(objs[k])]]
         /\ pos' = [pos EXCEPT ![t] = k]
         /\ spc' = [spc EXCEPT ![t] = "commit_processing"]
    ELSE /\ batch' = [batch EXCEPT ![t] = objs]
         /\ pos' = [pos EXCEPT ![t] = 0]
         /\ spc' = [spc EXCEPT ![t] = "commit_batch"]

\* The loop of lines 140-141 reaches index k of the loaded objects objs:
\* send_notification starts on it and runs to its first commit, or the loop
\* is over and the sweep's own commit (line 143) is awaited.
Advance(t, objs, k) ==
    IF k <= Len(objs)
    THEN /\ batch' = [batch EXCEPT ![t] = [objs EXCEPT ![k] = MarkProcessing(objs[k])]]
         /\ pos' = [pos EXCEPT ![t] = k]
         /\ spc' = [spc EXCEPT ![t] = "commit_processing"]
    ELSE /\ batch' = [batch EXCEPT ![t] = objs]
         /\ pos' = [pos EXCEPT ![t] = 0]
         /\ spc' = [spc EXCEPT ![t] = "commit_batch"]

\* Variant: the loop picks up the rows that became pending since the query.
ReturnRefetch(t, objs, k) ==
    LET late == SelectSeq(SelectPending(notifications),
                          LAMBDA i : \A j \in 1..Len(objs) : objs[j].id # i)
    IN  /\ hist' = [hist EXCEPT ![t] = Ended(@, objs[k].id, "returned")]
        /\ Advance(t, objs \o [j \in 1..Len(late) |-> Load(notifications, late[j])], k + 1)

\* send_notification returns normally from index k; the loop goes on.
Return(t, objs, k) ==
    /\ hist' = [hist EXCEPT ![t] = Ended(@, objs[k].id, "returned")]
    /\ Advance(t, objs, k + 1)

\* Line 126: the loop condition.
SweepCheck(t) ==
    /\ spc[t] = "check"
    /\ spc' = [spc EXCEPT ![t] = IF running THEN "query" ELSE "done"]
    /\ UNCHANGED <<procVars, ipc, batch, pos, storeVars, busVars, emailLog,
                   hist, confVars, req, mail>>

\* Lines 129-141: the batch query returns and the first send starts, or the
\* query raises and the except clause of line 145 leads to the sleep.
SweepQuery(t) ==
    /\ spc[t] = "query"
    /\ \/ LET ids == SelectPending(notifications)
          IN  Advance(t, [k \in 1..Len(ids) |-> Load(notifications, ids[k])], 1)
       \/ /\ storeFails
          /\ spc' = [spc EXCEPT ![t] = "sleep"]
          /\ UNCHANGED <<batch, pos>>
    /\ UNCHANGED <<procVars, ipc, storeVars, busVars, emailLog, hist, confVars, req, mail>>

\* The object send_notification is working on, and its row.
Current(t) == batch[t][pos[t]]

CurrentRow(t) == notifications[Current(t).id]

\* The except clause of send_notification is entered from an awaited call
\* that raised.
Except(t) ==
    /\ storeFails
    /\ batch' = [batch EXCEPT ![t][pos[t]] = OnException(@, STORE_ERROR)]
    /\ spc' = [spc EXCEPT ![t] = "commit_except"]
    /\ hist' = [hist EXCEPT ![t].faulted = TRUE]
    /\ UNCHANGED pos

\* Line 157 returns or raises.  When it returns, the channel branch runs up
\* to its next await: the preference query (e-mail with a user), else the
\* commit of the result.
CommitProcessing(t) ==
    /\ spc[t] = "commit_processing"
    /\ \/ /\ notifications' = Flush(notifications, batch[t])
          /\ IF NeedsLookup(CurrentRow(t))
             THEN /\ batch' = [batch EXCEPT ![t] = Flushed(batch[t])]
                  /\ spc' = [spc EXCEPT ![t] = "lookup"]
             ELSE /\ batch' = [batch EXCEPT ![t] =
                         [Flushed(batch[t]) EXCEPT ![pos[t]] =
                             SetResult(@, ChannelSuccess(CurrentRow(t)))]]
                  /\ spc' = [spc EXCEPT ![t] = "commit_result"]
          /\ UNCHANGED <<pos, hist>>
       \/ /\ Except(t)
          /\ UNCHANGED notifications
    /\ UNCHANGED <<procVars, ipc, preferences, busVars, emailLog, confVars, req, mail>>

\* Lines 167-182: the preference query returns or raises.  With an address,
\* send_email is called: unconfigured it returns False at once, else the
\* transport is awaited.  Without one, success stays False.
Lookup(t) ==
    /\ spc[t] = "lookup"
    /\ \/ LET pref == FindPreference(preferences, CurrentRow(t).user_id[1], "email")
          IN  IF HasAddress(pref)
              THEN /\ emailLog' = Append(emailLog,
                          [to |-> pref[1].email, event |-> 0, record |-> Current(t).id,
                           transport |-> smtpConfigured])
                   /\ IF smtpConfigured
                      THEN /\ spc' = [spc EXCEPT ![t] = "transport"]
                           /\ UNCHANGED <<batch, hist>>
                      ELSE /\ spc' = [spc EXCEPT ![t] = "commit_result"]
                           /\ batch' = [batch EXCEPT ![t][pos[t]] = SetResult(@, FALSE)]
                           /\ hist' = [hist EXCEPT ![t].sender = Some(FALSE)]
                   /\ UNCHANGED pos
              ELSE /\ batch' = [batch EXCEPT ![t][pos[t]] = SetResult(@, FALSE)]
                   /\ spc' = [spc EXCEPT ![t] = "commit_result"]
                   /\ UNCHANGED <<pos, hist, emailLog>>
       \/ /\ Except(t)
          /\ UNCHANGED emailLog
    /\ UNCHANGED <<procVars, ipc, storeVars, busVars, confVars, req, mail>>

\* email_provider.py 80-94: aiosmtplib.send returns (True) or raises (the
\* exception is caught and send_email returns False).
Transport(t) ==
    /\ spc[t] = "transport"
    /\ \E delivered \in BOOLEAN :
        /\ batch' = [batch EXCEPT ![t][pos[t]] = SetResult(@, delivered)]
        /\ hist' = [hist EXCEPT ![t].sender = Some(delivered)]
    /\ spc' = [spc EXCEPT ![t] = "commit_result"]
    /\ UNCHANGED <<procVars, ipc, pos, storeVars, busVars, emailLog, confVars, req, mail>>

\* Line 197 returns (send_notification returns) or raises (except clause).
CommitResult(t) ==
    /\ spc[t] = "commit_result"
    /\ \/ /\ notifications' = Flush(notifications, batch[t])
          /\ Return(t, Flushed(batch[t]), pos[t])
       \/ /\ Except(t)
          /\ UNCHANGED notifications
    /\ UNCHANGED <<procVars, ipc, preferences, busVars, emailLog, confVars, req, mail>>

\* Line 206 returns (send_notification returns) or raises: nothing catches
\* it inside send_notification, so it leaves the call and the for loop and
\* reaches the except clause of line 145.
CommitExcept(t) ==
    /\ spc[t] = "commit_except"
    /\ \/ /\ notifications' = Flush(notifications, batch[t])
          /\ Return(t, Flushed(batch[t]), pos[t])
       \/ /\ hist' = [hist EXCEPT ![t] = Ended(@, Current(t).id, "raised")]
          /\ spc' = [spc EXCEPT ![t] = "sleep"]
          /\ batch' = [batch EXCEPT ![t] = <<>>]
          /\ pos' = [pos EXCEPT ![t] = 0]
          /\ UNCHANGED notifications
    /\ UNCHANGED <<procVars, ipc, preferences, busVars, emailLog, confVars, req, mail>>

\* A loop that queries again at once after a full batch.
AfterBatchDrain(objs) == IF Len(objs) = BatchSize THEN "query" ELSE "sleep"

\* Lines 143-149: whatever the batch held, the iteration ends in the sleep.
AfterBatch(objs) == "sleep"

\* Line 143 returns or raises (caught at line 145); the session is closed
\* and the sleep of line 149 starts.
CommitBatch(t) ==
    /\ spc[t] = "commit_batch"
    /\ spc' = [spc EXCEPT ![t] = AfterBatch(batch[t])]
    /\ batch' = [batch EXCEPT ![t] = <<>>]
    /\ UNCHANGED <<procVars, ipc, pos, storeVars, busVars, emailLog, hist, confVars, req, mail>>

\* Line 149: the sleep is over.
Wake(t) ==
    /\ spc[t] = "sleep"
    /\ spc' = [spc EXCEPT ![t] = "check"]
    /\ UNCHANGED <<procVars, ipc, batch, pos, storeVars, busVars, emailLog,
                   hist, confVars, req, mail>>

\* ------------------------------------------------------ specifications
\* The state at construction (NotificationProcessor.__init__,
\* RedisClient.__init__), given what the tables hold and the settings.
Constructed ==
    /\ running = FALSE
    /\ client = FALSE
    /\ subscribed = FALSE
    /\ rc_running = FALSE
    /\ ipc = [t \in Tasks |-> "none"]
    /\ spc = [t \in Tasks |-> "none"]
    /\ batch = [t \in Tasks |-> <<>>]
    /\ pos = [t \in Tasks |-> 0]
    /\ inbox = <<>>
    /\ polled = 0
    /\ persist = "none"
    /\ emailLog = <<>>
    /\ hist = [t \in Tasks |-> NoCalls]
    /\ req = [r \in Requests |-> Idle]
    /\ mail = NoMail

Subscriber ==
    \/ \E t \in Tasks : Connect(t)
    \/ \E t \in Tasks : Subscribe(t)
    \/ \E t \in Tasks : Receive(t)
    \/ \E t \in Tasks : Timeout(t)
    \/ \E t \in Tasks : PollRaises(t)

Sweep ==
    \/ \E t \in Tasks : SweepCheck(t)
    \/ \E t \in Tasks : SweepQuery(t)
    \/ \E t \in Tasks : CommitProcessing(t)
    \/ \E t \in Tasks : Lookup(t)
    \/ \E t \in Tasks : Transport(t)
    \/ \E t \in Tasks : CommitResult(t)
    \/ \E t \in Tasks : CommitExcept(t)
    \/ \E t \in Tasks : CommitBatch(t)
    \/ \E t \in Tasks : Wake(t)

\* The whole service: the tables hold at most one row each at startup and
\* events arrive while both tasks run.
Init ==
    /\ now = 0
    /\ notifications \in Backlogs({s \in Sources : s.channel = "email" /\ s.user = "u1"}, 1)
    /\ preferences \in {P \in PreferenceTables : \A p \in P : p.enabled /\ p.email # None}
    /\ adminEmail \in {None, Some(ADMIN_EMAIL)}
    /\ smtpConfigured = TRUE
    /\ storeFails = TRUE
    /\ Constructed

Next ==
    \/ StartOnce
    \/ Stop
    \/ Subscriber
    \/ \E m \in SomeMessages : Publish(m)
    \/ Sweep

Spec == Init /\ [][Next]_vars

\* The steps the subscriber task takes when the bus does not fail under it.
Polling ==
    \/ \E t \in Tasks : Connect(t)
    \/ \E t \in Tasks : Subscribe(t)
    \/ \E t \in Tasks : Receive(t)
    \/ \E t \in Tasks : Timeout(t)

\* Both tasks are asyncio tasks of one event loop: a task that can run is
\* run, a poll ends within its timeout and a sleep within its interval.
\* Nothing obliges the bus to fail.
FairSpec == Spec /\ WF_vars(Polling) /\ WF_vars(Sweep)

\* The sweeps of a processor started and stopped any number of times, over
\* a backlog of rows they can deliver and a database that fails or does not.
RestartInit ==
    /\ now = 0
    /\ notifications \in Backlogs({s \in Sources : s.channel \in {"database", "email"} /\ (s.route => s.user = "u1")},
                                 1)
    /\ preferences \in {P \in PreferenceTables : \E p \in P : p.enabled /\ p.email # None}
    /\ adminEmail = None
    /\ smtpConfigured = TRUE
    /\ storeFails \in BOOLEAN
    /\ Constructed

RestartNext ==
    \/ Start
    \/ Stop
    \/ Sweep

RestartSpec == RestartInit /\ [][RestartNext]_vars

\* The sweep alone, over every backlog of pending rows and every preference
\* table.
SweepInit ==
    /\ now = 0
    /\ notifications \in Backlogs(Sources, MaxMixed)
    /\ preferences \in PreferenceTables
    /\ adminEmail = Some(ADMIN_EMAIL)
    /\ smtpConfigured = TRUE
    /\ storeFails \in BOOLEAN
    /\ Constructed

SweepNext ==
    \/ StartOnce
    \/ Stop
    \/ Sweep

SweepSpec == SweepInit /\ [][SweepNext]_vars

\* The sweep alone again, over a longer backlog of rows it can deliver.
FifoInit ==
    /\ now = 0
    /\ notifications \in Backlogs({s \in Sources : s.channel \in {"database", "email"} /\ (s.route => s.user = "u1")},
                                 MaxBacklog)
    /\ preferences \in {P \in PreferenceTables : \E p \in P : p.enabled /\ p.email # None}
    /\ adminEmail = None
    /\ smtpConfigured = TRUE
    /\ storeFails = TRUE
    /\ Constructed

FifoSpec == FifoInit /\ [][SweepNext]_vars

\* The read marker alone, called at any time on any id, over a backlog of
\* low-stock rows.
ReadInit ==
    /\ now = 0
    /\ notifications \in Backlogs({s \in Sources : ~s.route}, MaxBacklog)
    /\ preferences = {}
    /\ adminEmail = Some(ADMIN_EMAIL)
    /\ smtpConfigured = TRUE
    /\ storeFails = TRUE
    /\ Constructed

ReadNext ==
    \/ Tick
    \/ \E id \in 1..(MaxBacklog + 1) : MarkNotificationRead(id)

ReadSpec == ReadInit /\ [][ReadNext]_vars

\* The preference-create route alone, its requests served concurrently.
PrefInit ==
    /\ now = 0
    /\ notifications = <<>>
    /\ preferences \in PreferenceTables
    /\ adminEmail = Some(ADMIN_EMAIL)
    /\ smtpConfigured = TRUE
    /\ storeFails = TRUE
    /\ Constructed

PrefNext ==
    \/ \E r \in Requests : CheckPreference(r)
    \/ \E r \in Requests : InsertPreference(r)

PrefSpec == PrefInit /\ [][PrefNext]_vars

\* The e-mail provider alone, called with any settings and arguments.
MailInit ==
    /\ now = 0
    /\ notifications = <<>>
    /\ preferences = {}
    /\ adminEmail = Some(ADMIN_EMAIL)
    /\ smtpConfigured = TRUE
    /\ storeFails = TRUE
    /\ Constructed

MailNext == CallSendEmail

MailSpec == MailInit /\ [][MailNext]_vars

\* The subscriber alone, over every message, preference table and e-mail
\* setting.
IntakeInit ==
    /\ now = 0
    /\ notifications = <<>>
    /\ preferences \in PreferenceTables
    /\ adminEmail \in {None, Some(""), Some(ADMIN_EMAIL)}
    /\ smtpConfigured \in BOOLEAN
    /\ storeFails = TRUE
    /\ Constructed

IntakeNext ==
    \/ StartOnce
    \/ Stop
    \/ Subscriber
    \/ \E m \in Messages : Publish(m)

IntakeSpec == IntakeInit /\ [][IntakeNext]_vars

\* The service over a backlog longer than a batch while low-stock events
\* arrive, with a database whose calls return: the except clause of
\* send_notification is not entered, so its commit is not among the steps.
\* The sweep task is an asyncio task: when it can run it is run, and its
\* sleep ends.
LiveInit ==
    /\ now = 0
    /\ notifications \in
          { b \in Backlogs({s \in Sources : s.channel \in {"database", "email"} /\ (s.route => s.user = "u1")},
                           BatchSize + 1) : Len(b) = BatchSize + 1 }
    /\ preferences = {Preference(1, "u1", "email", TRUE, Some("u1@example.com"))}
    /\ adminEmail = None
    /\ smtpConfigured = TRUE
    /\ storeFails = FALSE
    /\ Constructed

LiveSweep ==
    \/ \E t \in Tasks : SweepCheck(t)
    \/ \E t \in Tasks : SweepQuery(t)
    \/ \E t \in Tasks : CommitProcessing(t)
    \/ \E t \in Tasks : Lookup(t)
    \/ \E t \in Tasks : Transport(t)
    \/ \E t \in Tasks : CommitResult(t)
    \/ \E t \in Tasks : CommitBatch(t)
    \/ \E t \in Tasks : Wake(t)

LiveNext ==
    \/ StartOnce
    \/ Polling
    \/ Publish([json |-> TRUE, data |-> WidgetEvent])
    \/ LiveSweep

LiveSpec == LiveInit /\ [][LiveNext]_vars /\ WF_vars(LiveSweep)

\* ------------------------------------------------------------- properties
\* One step of a status along pending -> processing -> {sent, failed}.
StatusStep(a, b) ==
    \/ a = b
    \/ a = "pending" /\ b = "processing"
    \/ a = "processing" /\ b \in {"sent", "failed"}

\* C1: the status of a record, as stored and as the object send_notification
\* holds, only moves pending -> processing -> sent or failed, and is never
\* changed once it is sent or failed, store failures included.
C1_StatusLifecycle ==
    [][/\ \A i \in 1..Len(notifications) :
            StatusStep(notifications[i].status, notifications'[i].status)
       /\ \A t \in Tasks : \A k \in 1..Len(batch[t]) :
            (k <= Len(batch'[t]) /\ batch'[t][k].id = batch[t][k].id)
                => StatusStep(batch[t][k].status, batch'[t][k].status)]_vars

\* C2: no call of send_notification ends with an exception; a call in which
\* an awaited step raised returns with the record stored as failed and the
\* exception's message as its error detail.
C2_NeverRaises ==
    \A t \in Tasks : hist[t].last # None =>
        LET c == hist[t].last[1]
        IN  /\ c.outcome = "returned"
            /\ c.faulted => /\ notifications[c.id].status = "failed"
                            /\ notifications[c.id].error_message = Some(STORE_ERROR)

\* stop() has been called on a started processor.
Stopped == (\E t \in Tasks : ipc[t] # "none") /\ ~running

\* Both tasks of every start() have ended.
Terminated ==
    \A t \in Tasks : ipc[t] \in {"none", "done", "crashed"} /\ spc[t] \in {"none", "done"}

\* C3: once stop() has been called on a started processor, the subscribe
\* loop and the sweep loop both end, however stop() interleaves with the two
\* tasks.
C3_StopTerminates == Stopped ~> Terminated

\* The ids of the objects a sweep task holds, in the order it sends them.
BatchIds(b) == [k \in 1..Len(b) |-> b[k].id]

\* C4: the batch a sweep's query hands to send_notification holds at most
\* BatchSize rows, all pending at query time, oldest first, and a pending row
\* is left out only when the batch is full and holds nothing newer; the
\* rows are sent one after another in that order, and a row outside the batch
\* keeps its status.
C4_FifoBatch ==
    [][\A t \in Tasks :
        /\ (spc[t] = "query" /\ spc'[t] \in {"commit_processing", "commit_batch"}) =>
              LET ids == BatchIds(batch'[t])
              IN  /\ Len(ids) <= BatchSize
                  /\ \A k \in 1..Len(ids) : notifications[ids[k]].status = "pending"
                  /\ \A k, l \in 1..Len(ids) :
                        k < l => notifications[ids[k]].created_at < notifications[ids[l]].created_at
                  /\ \A i \in 1..Len(notifications) :
                        (notifications[i].status = "pending" /\ i \notin Range(ids)) =>
                            /\ Len(ids) = BatchSize
                            /\ \A k \in 1..Len(ids) :
                                  notifications[ids[k]].created_at < notifications[i].created_at
                  /\ pos'[t] = IF ids = <<>> THEN 0 ELSE 1
        /\ (pos[t] > 0 /\ pos'[t] > 0) =>
              /\ BatchIds(batch'[t]) = BatchIds(batch[t])
              /\ pos'[t] \in {pos[t], pos[t] + 1}
        /\ \A i \in 1..Len(notifications) :
              notifications'[i].status # notifications[i].status =>
                  \E u \in Tasks : pos[u] > 0 /\ batch[u][pos[u]].id = i]_vars

\* C4, reached: of BatchSize + 1 pending rows, a sweep has sent all but the
\* newest and sleeps.
C4_Reached ==
    /\ Len(notifications) = BatchSize + 1
    /\ \A i \in 1..BatchSize : notifications[i].status \in {"sent", "failed"}
    /\ notifications[BatchSize + 1].status = "pending"
    /\ \E t \in Tasks :
          /\ spc[t] = "sleep"
          /\ hist[t].last # None
          /\ hist[t].last[1].id = BatchSize
          /\ hist[t].last[1].outcome = "returned"

\* A message that is a low-stock event with its product id, quantity and
\* threshold.
ValidLowStock(m) ==
    /\ m.json
    /\ m.data.type = Some("low_stock")
    /\ m.data.product_id \notin {None, Some("")}
    /\ m.data.current_quantity # None
    /\ m.data.threshold # None

\* A low-stock event that lacks its product id, quantity or threshold.
IncompleteLowStock(m) ==
    /\ m.json
    /\ m.data.type = Some("low_stock")
    /\ \/ m.data.product_id \in {None, Some("")}
       \/ m.data.current_quantity = None
       \/ m.data.threshold = None

\* The step in which the subscriber polls a message.
Polled == polled' = polled + 1

\* C5: handling a valid low-stock event whose insert the store commits adds
\* exactly one row and changes no other: channel database, status pending,
\* no user, the product name in the subject, the event as its data.
C5_OneRecord ==
    [][(Polled /\ ValidLowStock(Head(inbox)) /\ persist' # "commit_raised") =>
         /\ Len(notifications') = Len(notifications) + 1
         /\ SubSeq(notifications', 1, Len(notifications)) = notifications
         /\ LET r == notifications'[Len(notifications')]
                d == Head(inbox).data
            IN  /\ r.channel = "database"
                /\ r.status = "pending"
                /\ r.user_id = None
                /\ r.data = Some(d)
                /\ d.product_name # None => d.product_name[1] \in Range(r.subject)]_vars

\* C5, reached: the event for Widget has been handled and its row is the
\* only one.
C5_Reached ==
    /\ polled = 1
    /\ persist = "ok"
    /\ Len(notifications) = 1
    /\ notifications[1].data = Some(WidgetEvent)
    /\ notifications[1].channel = "database"

\* C6: handling a valid low-stock event whose row the store has stored and
\* refreshed makes exactly one call of send_email, to the admin address,
\* when that address is set, whatever the preferences table holds; with no
\* admin address it makes none, and the row is stored all the same.
C6_OneAdminMail ==
    [][(Polled /\ ValidLowStock(Head(inbox)) /\ persist' = "ok") =>
         /\ Len(notifications') = Len(notifications) + 1
         /\ IF adminEmail \notin {None, Some("")}
            THEN /\ Len(emailLog') = Len(emailLog) + 1
                 /\ SubSeq(emailLog', 1, Len(emailLog)) = emailLog
                 /\ emailLog'[Len(emailLog')].to = adminEmail
            ELSE emailLog' = emailLog]_vars

\* C6, reached: with a disabled preference as the only one, the admin
\* address has been sent the one alert of the one event.
C6_Reached ==
    /\ polled = 1
    /\ persist = "ok"
    /\ \E p \in preferences : ~p.enabled
    /\ Len(notifications) = 1
    /\ Len(emailLog) = 1
    /\ emailLog[1].to = Some(ADMIN_EMAIL)

\* C7: handling a low-stock event that lacks its product id, quantity or
\* threshold stores nothing, changes no table, calls send_email not once and
\* leaves the subscriber polling; a quantity and a threshold of 0 are present
\* ones, and the insert of such an event is attempted.
C7_IncompleteDropped ==
    [][/\ (Polled /\ IncompleteLowStock(Head(inbox))) =>
            /\ notifications' = notifications
            /\ preferences' = preferences
            /\ emailLog' = emailLog
            /\ persist' = "invalid"
            /\ \A t \in Tasks : (ipc[t] = "waiting" /\ rc_running) => ipc'[t] = "waiting"
       /\ (/\ Polled
           /\ ValidLowStock(Head(inbox))
           /\ Head(inbox).data.current_quantity = Some(0)
           /\ Head(inbox).data.threshold = Some(0)) =>
              persist' \in {"ok", "commit_raised", "refresh_raised"}]_vars

\* C7, reached: an event has been polled and dropped, and the subscriber
\* polls on.
C7_Reached ==
    /\ polled = 1
    /\ persist = "invalid"
    /\ notifications = <<>>
    /\ emailLog = <<>>
    /\ rc_running
    /\ \E t \in Tasks : ipc[t] = "waiting"

\* An e-mail record with no user, or whose user has no e-mail preference
\* with an address.
Unaddressed(row) ==
    /\ row.channel = "email"
    /\ \/ row.user_id \in {None, Some("")}
       \/ \A p \in preferences :
             (p.user_id = row.user_id[1] /\ p.channel = "email") => p.email \in {None, Some("")}

\* C8: a call of send_notification on an e-mail record with no user, no
\* preference or no address, in which no store call raises, returns with the
\* record stored as failed with the fixed message; send_email is never
\* called for such a record.
C8_UnaddressedFails ==
    /\ \A t \in Tasks : hist[t].last # None =>
          LET c == hist[t].last[1]
          IN  (Unaddressed(notifications[c.id]) /\ ~c.faulted) =>
                  /\ c.outcome = "returned"
                  /\ notifications[c.id].status = "failed"
                  /\ notifications[c.id].error_message = Some(FAILED_MSG)
    /\ \A k \in 1..Len(emailLog) :
          emailLog[k].record # 0 => ~Unaddressed(notifications[emailLog[k].record])

\* C8, reached: a send has returned for an e-mail record of a user with no
\* preference.
C8_Reached ==
    /\ preferences = {}
    /\ \E t \in Tasks :
          /\ hist[t].last # None
          /\ hist[t].last[1].outcome = "returned"
          /\ ~hist[t].last[1].faulted
          /\ notifications[hist[t].last[1].id].channel = "email"
          /\ notifications[hist[t].last[1].id].user_id = Some("u1")
          /\ notifications[hist[t].last[1].id].status = "failed"

\* C9: a call of send_notification on a record whose channel is neither
\* email nor database, in which no store call raises, returns with the record
\* stored as failed with the fixed message; send_email is never called for
\* such a record.
C9_UnknownChannelFails ==
    /\ \A t \in Tasks : hist[t].last # None =>
          LET c == hist[t].last[1]
          IN  (notifications[c.id].channel \notin {"email", "database"} /\ ~c.faulted) =>
                  /\ c.outcome = "returned"
                  /\ notifications[c.id].status = "failed"
                  /\ notifications[c.id].error_message = Some(FAILED_MSG)
    /\ \A k \in 1..Len(emailLog) :
          emailLog[k].record # 0 =>
              notifications[emailLog[k].record].channel \in {"email", "database"}

\* C9, reached: a send has returned for a record of channel sms.
C9_Reached ==
    \E t \in Tasks :
        /\ hist[t].last # None
        /\ hist[t].last[1].outcome = "returned"
        /\ ~hist[t].last[1].faulted
        /\ notifications[hist[t].last[1].id].channel = "sms"
        /\ notifications[hist[t].last[1].id].status = "failed"

C11_ReadIdempotent ==
    [][\A i \in 1..Len(notifications) :
        notifications[i].read_at # None => notifications'[i] = notifications[i]]_vars

\* C12: the preferences table never holds two rows for one user and one
\* channel, however the requests to create a preference interleave.
C12_OnePreferencePerKey ==
    \A p, q \in preferences :
        (p.user_id = q.user_id /\ p.channel = q.channel) => p = q

\* A call of send_notification starts for sweep task t in this step.
SendStarts(t) ==
    /\ spc'[t] = "commit_processing"
    /\ spc[t] # "commit_processing" \/ pos'[t] # pos[t]

\* C13: a row stored as failed has a non-empty error detail and keeps its
\* status and its error detail in every later step; no query returns it and no
\* call of send_notification starts on it.
C13_NoRetry ==
    [][/\ \A i \in 1..Len(notifications) :
            /\ notifications[i].status = "failed" =>
                  /\ notifications'[i].status = "failed"
                  /\ notifications'[i].error_message = notifications[i].error_message
            /\ notifications'[i].status = "failed" =>
                  notifications'[i].error_message \notin {None, Some("")}
       /\ \A t \in Tasks :
            /\ (spc[t] = "query" /\ spc'[t] \in {"commit_processing", "commit_batch"}) =>
                  \A k \in 1..Len(batch'[t]) :
                      notifications[batch'[t][k].id].status # "failed"
            /\ SendStarts(t) =>
                  notifications[batch'[t][pos'[t]].id].status # "failed"]_vars

\* C13, reached: with the first row stored as failed, a later sweep has
\* queried and sends the second row alone.
C13_Reached ==
    /\ Len(notifications) = 2
    /\ notifications[1].status = "failed"
    /\ \E t \in Tasks :
          /\ spc[t] = "commit_processing"
          /\ BatchIds(batch[t]) = <<2>>

\* C14: send_email never raises; with the user name, the password or the
\* sender address unset or empty it returns False and makes no transport
\* call, whatever the recipient, subject and body; when the transport call
\* raises it returns False.
C14_SendEmailFalse ==
    mail.called =>
        /\ ~mail.out.raised
        /\ (\/ mail.username \in {None, Some("")}
            \/ mail.password \in {None, Some("")}
            \/ mail.from_email \in {None, Some("")}) =>
              (~mail.out.result /\ mail.out.sends = 0)
        /\ (mail.transport = "raises" => ~mail.out.result)

\* C14, reached: send_email has been called with the password alone unset
\* and has returned False without a transport call.
C14_Reached ==
    /\ mail.called
    /\ mail.username = Some("set")
    /\ mail.password = None
    /\ mail.from_email = Some("set")
    /\ ~mail.out.result
    /\ mail.out.sends = 0

\* The ids of the records a call of send_notification is in progress on.
InFlight(t) == IF pos[t] > 0 THEN {batch[t][pos[t]].id} ELSE {}

\* C15: over a database that does not fail, however start() and stop() are
\* called and events arrive, no two sweep tasks are sending the same record
\* and send_email is called at most once for a record.
C15_OneSendPerRecord ==
    ~storeFails =>
        /\ \A t, u \in Tasks : t # u => InFlight(t) \cap InFlight(u) = {}
        /\ \A k, l \in 1..Len(emailLog) :
              (emailLog[k].record # 0 /\ emailLog[k].record = emailLog[l].record) => k = l

\* C16: while send_notification awaits the preference query, the transport
\* or the commit of the result, the row of its record is stored as
\* processing: the commit of line 157 has returned before any of them.
C16_ProcessingStoredFirst ==
    \A t \in Tasks :
        spc[t] \in {"lookup", "transport", "commit_result"} =>
            notifications[batch[t][pos[t]].id].status = "processing"

\* C16, reached: send_email awaits the transport for a record stored as
\* processing.
C16_Reached ==
    \E t \in Tasks :
        /\ spc[t] = "transport"
        /\ notifications[batch[t][pos[t]].id].status = "processing"
        /\ \E k \in 1..Len(emailLog) : emailLog[k].record = batch[t][pos[t]].id

\* C17: over a database that does not fail, a batch is sent to its end
\* whether or not stop() has been called: when a send ends the next record
\* of the batch is passed to send_notification, and when the last has ended
\* every row of the batch is stored as sent or failed.  The flag is read at
\* the loop condition alone, and no query starts when it is found cleared.
C17_BatchCompletesAfterStop ==
    [][\A t \in Tasks :
        /\ (~storeFails /\ pos[t] > 0 /\ pos'[t] # pos[t]) =>
              IF pos[t] < Len(batch[t])
              THEN /\ pos'[t] = pos[t] + 1
                   /\ spc'[t] = "commit_processing"
                   /\ BatchIds(batch'[t]) = BatchIds(batch[t])
              ELSE /\ spc'[t] = "commit_batch"
                   /\ \A k \in 1..Len(batch[t]) :
                         notifications'[batch[t][k].id].status \in {"sent", "failed"}
        /\ (spc[t] # "query" /\ spc'[t] = "query") => (spc[t] = "check" /\ running)
        /\ (spc[t] = "check" /\ ~running /\ spc'[t] # spc[t]) => spc'[t] = "done"]_vars

\* C17, reached: with the flag cleared and the first record of the batch
\* sent, the second is passed to send_notification.
C17_Reached ==
    /\ ~running
    /\ ~storeFails
    /\ \E t \in Tasks :
          /\ pos[t] = 2
          /\ spc[t] = "commit_processing"
          /\ notifications[batch[t][1].id].status \in {"sent", "failed"}
          /\ notifications[batch[t][2].id].status = "pending"

\* C18: once stop() has returned and the subscribe loop has ended, the
\* subscription is closed and so is the client connection.
C18_StopReleasesBus ==
    (Stopped /\ \A t \in Tasks : ipc[t] \in {"none", "done"}) =>
        (~subscribed /\ ~client)

\* Where a sweep task is while one iteration's try block runs.
InIteration ==
    {"query", "commit_processing", "lookup", "transport", "commit_result",
     "commit_except", "commit_batch"}

\* C19: a sweep task sleeps exactly once between two consecutive batch
\* queries: an iteration is left only into the sleep, whether its batch was
\* empty or full or its query or processing raised, the sleep is left only
\* into the loop check, and a query starts only from that check, which is
\* reached only from the sleep or from the start of the task.
C19_OneSleepBetweenQueries ==
    [][\A t \in Tasks :
        /\ (spc[t] \in InIteration /\ spc'[t] \notin InIteration) => spc'[t] = "sleep"
        /\ (spc[t] = "sleep" /\ spc'[t] # "sleep") => spc'[t] = "check"
        /\ (spc[t] # "check" /\ spc'[t] = "check") => spc[t] \in {"none", "sleep"}
        /\ (spc[t] # "query" /\ spc'[t] = "query") => spc[t] = "check"]_vars

\* A sweep task queries again after a full batch that left rows pending.
C19_Reached ==
    \E t \in Tasks :
        /\ spc[t] = "query"
        /\ Len(notifications) > BatchSize
        /\ \A i \in 1..BatchSize : notifications[i].status \in {"sent", "failed"}
        /\ notifications[BatchSize + 1].status = "pending"

\* C20: the rows a sweep iteration sends are those its query returned: the
\* batch of a task changes only at its query or when the iteration ends, a
\* row inserted while a batch is in progress is in no batch, and each send
\* that follows another starts on a row of the batch as it was.
C20_BatchFixedByQuery ==
    [][\A t \in Tasks :
        /\ spc[t] # "query" =>
               \/ batch'[t] = <<>>
               \/ BatchIds(batch'[t]) = BatchIds(batch[t])
        /\ Len(notifications') > Len(notifications) =>
               \A k \in 1..Len(batch'[t]) : batch'[t][k].id <= Len(notifications)
        /\ (SendStarts(t) /\ spc[t] # "query") =>
               \E k \in 1..Len(batch[t]) : batch[t][k].id = batch'[t][pos'[t]].id]_vars

\* A sweep task is inside a batch that is not full while a pending row that
\* the subscriber stored after the query waits outside it.
C20_Reached ==
    \E t \in Tasks :
        /\ pos[t] > 0
        /\ Len(batch[t]) < BatchSize
        /\ persist = "ok"
        /\ \E i \in 1..Len(notifications) :
               /\ notifications[i].status = "pending"
               /\ \A k \in 1..Len(batch[t]) : batch[t][k].id < i

\* The calls of send_email the sweep has made for record id.
SenderCalls(log, id) == {k \in 1..Len(log) : log[k].record = id}

\* A call of send_notification by task t returns in this step without any
\* of its awaited store calls having raised.
CleanReturn(t) ==
    /\ hist'[t].last # hist[t].last
    /\ hist'[t].last # None
    /\ hist'[t].last[1].outcome = "returned"
    /\ ~hist'[t].last[1].faulted

\* C21: when send_notification returns from a call in which no store call
\* raised, a database record is stored as sent with its sent timestamp and
\* send_email was not called for it; an e-mail record whose user has a
\* preference with a non-empty address had send_email called once, with that
\* address, and is stored as sent with its sent timestamp when send_email
\* returned true and else as failed with the fixed error detail and no sent
\* timestamp.
C21_OutcomeByChannel ==
    [][\A t \in Tasks :
        CleanReturn(t) =>
          LET c == hist'[t].last[1]
              row == notifications'[c.id]
              calls == SenderCalls(emailLog', c.id)
              pref == IF Truthy(row.user_id)
                      THEN FindPreference(preferences, row.user_id[1], "email")
                      ELSE None
          IN  /\ row.channel = "database" =>
                    /\ row.status = "sent"
                    /\ row.sent_at # None
                    /\ calls = {}
                    /\ c.sender = None
              /\ (row.channel = "email" /\ HasAddress(pref)) =>
                    /\ Cardinality(calls) = 1
                    /\ \A k \in calls : emailLog'[k].to = pref[1].email
                    /\ c.sender # None
                    /\ IF c.sender[1]
                       THEN row.status = "sent" /\ row.sent_at # None
                       ELSE /\ row.status = "failed"
                            /\ row.error_message = Some(FAILED_MSG)
                            /\ row.sent_at = None]_vars

\* A database record and an e-mail record have both been through
\* send_notification, the e-mail one with a sender that returned false.
C21_Reached ==
    /\ \E i \in 1..Len(notifications) :
          notifications[i].channel = "database" /\ notifications[i].status = "sent"
    /\ \E t \in Tasks :
          /\ hist[t].last # None
          /\ hist[t].last[1].sender = Some(FALSE)
          /\ ~hist[t].last[1].faulted
          /\ notifications[hist[t].last[1].id].channel = "email"
          /\ notifications[hist[t].last[1].id].status = "failed"
          /\ SenderCalls(emailLog, hist[t].last[1].id) # {}

\* The attributes of a row that send_notification never assigns.
Frame(row) ==
    <<row.content, row.subject, row.type, row.channel, row.user_id, row.data,
      row.read_at, row.created_at>>

\* C22: no step of the subscriber or of the sweep removes a row of the
\* notifications table or changes a row's content, subject, type, channel,
\* user, payload, read marker or creation time, and none changes the
\* preferences table.
C22_ContentImmutable ==
    [][/\ Len(notifications') >= Len(notifications)
       /\ \A i \in 1..Len(notifications) : Frame(notifications'[i]) = Frame(notifications[i])
       /\ preferences' = preferences]_vars

\* The sweep has sent a row that the low-stock handler stored, and has stored
\* another row as failed.
C22_Reached ==
    /\ persist = "ok"
    /\ \E i \in 1..Len(notifications) :
          notifications[i].type = "low_stock" /\ notifications[i].status = "sent"
    /\ \E i \in 1..Len(notifications) :
          notifications[i].type = "test" /\ notifications[i].status = "failed"

\* A decoded event whose type is absent or is not low_stock.
OtherType(m) == m.json /\ m.data.type # Some("low_stock")

\* C23: the step in which the subscriber polls an event whose type is absent
\* or is not low_stock stores no row and calls send_email for nothing, and
\* the subscriber task goes on to its loop condition: it polls again while
\* the client's flag is set and ends normally once it is cleared.
C23_OtherTypeIgnored ==
    [][(Polled /\ OtherType(Head(inbox))) =>
         /\ notifications' = notifications
         /\ emailLog' = emailLog
         /\ \A t \in Tasks :
               ipc'[t] # ipc[t] \/ ipc[t] = "waiting" =>
                   ipc'[t] = IF ipc[t] = "waiting"
                             THEN (IF rc_running THEN "waiting" ELSE "done")
                             ELSE ipc[t]]_vars

\* An event of another type, or of none, has been polled and dropped, and the
\* subscriber is waiting for the next message.
C23_Reached ==
    /\ polled = 1
    /\ persist = "ignored"
    /\ notifications = <<>>
    /\ emailLog = <<>>
    /\ \E t \in Tasks : ipc[t] = "waiting"

\* C24: when send_email reaches the transport with cc or bcc recipients, the
\* transport's recipients are the To address, every cc address and every bcc
\* address, the message's visible headers hold the To and cc addresses, and
\* no bcc address is in a header.
C24_BccInEnvelopeOnly ==
    (mail.called /\ mail.out.sends = 1 /\ (mail.cc # <<>> \/ mail.bcc # <<>>)) =>
        /\ Range(mail.envelope) = Range(Recipients(mail.to, mail.cc, mail.bcc))
        /\ Range(mail.headers.To) = {mail.to}
        /\ Range(mail.headers.Cc) = Range(mail.cc)
        /\ Range(mail.bcc) \cap
               (Range(mail.headers.To) \cup Range(mail.headers.Cc)
                  \cup Range(mail.headers.Bcc)) = {}

\* No row is pending or processing, and the rows of low-stock events are
\* stored as sent.
AllSettled ==
    \A i \in 1..Len(notifications) :
        /\ notifications[i].status \in {"sent", "failed"}
        /\ notifications[i].type = "low_stock" => notifications[i].status = "sent"

\* C25: over a database and a sender whose calls return, while the processor
\* runs there is again and again a time at which every row that has been
\* stored, at startup or from an event since, is stored as sent or failed and
\* every row of a low-stock event as sent: no row stays pending or
\* processing for ever.
C25_PendingSettles == []<>(~running \/ AllSettled)

\* With the processor running, a backlog longer than a batch and the row of
\* an event that arrived meanwhile have all been settled, the event's row as
\* sent.
C25_Reached ==
    /\ running
    /\ persist = "ok"
    /\ Len(notifications) > BatchSize + 1
    /\ AllSettled
    /\ notifications[Len(notifications)].status = "sent"

\* The e-mail preferences of the user of a row that hold a non-empty
\* address, enabled or not.
Addressed(row) ==
    {p \in preferences :
        /\ Truthy(row.user_id)
        /\ p.user_id = row.user_id[1]
        /\ p.channel = "email"
        /\ Truthy(p.email)}

\* C26: when send_notification returns for an e-mail record, no store call
\* having raised, send_email has been called for the record exactly when a
\* preference of the record's user for the e-mail channel holds a non-empty
\* address, whether that preference is enabled or not, and it was called with
\* that address.
C26_EnabledNotConsulted ==
    [][\A t \in Tasks :
        CleanReturn(t) =>
          LET c == hist'[t].last[1]
              row == notifications'[c.id]
              calls == SenderCalls(emailLog', c.id)
          IN  row.channel = "email" =>
                /\ (calls # {}) <=> (Addressed(row) # {})
                /\ \A k \in calls : \E p \in Addressed(row) : emailLog'[k].to = p.email]_vars

\* The user's only e-mail preference is disabled, and the record has been
\* sent to its address.
C26_Reached ==
    /\ \A p \in preferences : ~p.enabled
    /\ \E i \in 1..Len(notifications) :
          /\ notifications[i].channel = "email"
          /\ notifications[i].status = "sent"
          /\ Addressed(notifications[i]) # {}
          /\ \E k \in SenderCalls(emailLog, i) :
                \E p \in preferences : emailLog[k].to = p.email

\* C27: in the step that handles a valid low-stock event, send_email is
\* called only when the row's commit and refresh have returned; when either
\* raised no call is made and the subscriber task goes on to its loop
\* condition; and when the call is made, whether or not the provider can send,
\* the stored row stays as it was inserted and no other row changes.
C27_MailAfterPersist ==
    [][(Polled /\ ValidLowStock(Head(inbox))) =>
         /\ Len(emailLog') > Len(emailLog) =>
               /\ persist' = "ok"
               /\ Len(notifications') = Len(notifications) + 1
         /\ persist' \in {"commit_raised", "refresh_raised"} =>
               /\ emailLog' = emailLog
               /\ \A t \in Tasks : ipc'[t] # "crashed"
               /\ \A t \in Tasks : ipc[t] = "waiting" =>
                     ipc'[t] = IF rc_running THEN "waiting" ELSE "done"
         /\ persist' = "ok" =>
               notifications' = Append(notifications,
                                       LowStockRecord(Head(inbox).data, Len(notifications) + 1))]_vars

\* With an admin address set, the store raised on the row of an event, no
\* e-mail was attempted and the subscriber is waiting for the next message.
C27_Reached ==
    /\ polled = 1
    /\ persist \in {"commit_raised", "refresh_raised"}
    /\ adminEmail = Some(ADMIN_EMAIL)
    /\ emailLog = <<>>
    /\ \E t \in Tasks : ipc[t] = "waiting"

====
